---- MODULE Spec2Model ----
(***************************************************************************)
(* The pomodoro timer of src/bubble.go as a state machine.                 *)
(*                                                                         *)
(* One state of the module is the value of the bubbletea model `m` between *)
(* two calls of model.Update, together with what the runtime holds for the *)
(* program: the tick commands it has scheduled (tea.Tick), the wall clock  *)
(* read by time.Now(), the session file written by saveSessions and        *)
(* whether tea.Quit has been issued.  One action is one call of Update on  *)
(* one message.                                                            *)
(*                                                                         *)
(* Time is counted in whole seconds (time.Second = 1).  A time.Duration is *)
(* an int64 count of nanoseconds; every duration the program forms is the  *)
(* int64 result of  n * time.Minute + k * time.Second,  so a duration is   *)
(* kept as the pair [m |-> n, s |-> k] and the int64 wrap-around is        *)
(* applied where the code reads the value (Seconds, Milliseconds).         *)
(***************************************************************************)
EXTENDS Integers, Sequences, FiniteSets, TLC

VARIABLES
    textarea,            \* m.textarea.Value(): the text of the prompt, a sequence of characters
    inSession,           \* m.inSession
    opening,             \* m.opening
    closing,             \* m.closing
    sessionType,         \* m.sessionType
    timerDuration,       \* m.timerDuration
    remainingTime,       \* m.remainingTime
    startTime,           \* m.startTime
    percent,             \* m.percent, the exact fraction <<numerator, denominator>>
    sessions,            \* m.sessions
    err,                 \* m.err
    showSession,         \* m.showSession
    printDifferentDate,  \* m.printDifferentDate
    datePrint,           \* m.datePrint
    pending,             \* tick commands scheduled by tickCmd and not yet delivered
    now,                 \* the wall clock, in seconds since the program started
    disk,                \* the sessions last written by saveSessions
    quit,                \* tea.Quit has been returned: the program has ended
    loaded,              \* history: the number of sessions loadSessions returned
    ticks,               \* history: tickMsg handled in session since the last accepted start
    ev,                  \* history: the message handled last and what Update did with it
    env                  \* the name of the environment of this run: what the user types and for how long

timerVars == <<inSession, opening, closing, sessionType, timerDuration,
               remainingTime, startTime, percent>>
listVars  == <<showSession, printDifferentDate, datePrint>>
vars == <<textarea, inSession, opening, closing, sessionType, timerDuration,
          remainingTime, startTime, percent, sessions, err, showSession,
          printDifferentDate, datePrint, pending, now, disk, quit, loaded,
          ticks, ev, env>>

-----------------------------------------------------------------------------
(* Program constants *)

workSession  == "Work"
breakSession == "Break"

\* time.Minute in units of time.Second
Minute == 60

\* ta.CharLimit
CharLimit == 20

\* The pre-roll added to remainingTime at a start, in seconds
OpeningSeconds == 3

\* The threshold of the closing window: the session ends once Seconds() <= -4
ClosingSeconds == 4

DefaultWorkMinutes  == 25
DefaultBreakMinutes == 5

\* keys.Stop and the rune of keys.Quit
StopKey  == <<"x">>
QuitRune == <<"q">>

\* The names of the other messages: tea.KeyEnter, tea.KeyEsc or tea.KeyCtrlC, tickMsg
Enter == <<"enter">>
Esc == <<"esc">>
TickMsg == <<"tick">>

-----------------------------------------------------------------------------
(* time.Duration: int64 nanoseconds *)

\* The largest int64, 2^63 - 1 ns, is 153722867 min 16.854775807 s
MaxInt64Minutes == 153722867
MaxInt64RestSeconds == 16

\* 2^64 ns is 307445734 min 33.709551616 s
WrapMinutes == 307445734
WrapRestSeconds == 33

\* time.Duration(n) * time.Minute
Minutes(n) == [m |-> n, s |-> 0]

\* d + k * time.Second (k may be negative)
AddSeconds(d, k) == [m |-> d.m, s |-> d.s + k]

\* Whether Minute * a + b <= Minute * c + e, without forming the products
LeqMinSec(a, b, c, e) == a - c <= (e - b) \div Minute

\* The mathematical value Minute * d.m + d.s exceeds the largest int64: the
\* int64 product wrapped around once and holds the value minus 2^64 ns.
\* (Durations of this program lie below 2^64 ns and above -2^63 ns.)
Wrapped(d) == ~ LeqMinSec(d.m, d.s, MaxInt64Minutes, MaxInt64RestSeconds)

\* d.Seconds() <= c for a whole number c of seconds
SecondsLeq(d, c) ==
    IF Wrapped(d)
    THEN LeqMinSec(d.m, d.s, WrapMinutes, WrapRestSeconds + c)
    ELSE LeqMinSec(d.m, d.s, 0, c)

\* d.Milliseconds() <= e.Milliseconds(); both are whole seconds up to the
\* same or no wrap-around, so the truncation to milliseconds keeps the order
MillisecondsLeq(d, e) ==
    CASE Wrapped(d) = Wrapped(e)  -> LeqMinSec(d.m, d.s, e.m, e.s)
      [] Wrapped(d) /\ ~Wrapped(e) -> LeqMinSec(d.m, d.s, e.m + WrapMinutes, e.s + WrapRestSeconds)
      [] OTHER                     -> LeqMinSec(d.m + WrapMinutes, d.s + WrapRestSeconds + 1, e.m, e.s)

\* The value in whole seconds of a duration that did not wrap
InSeconds(d) == Minute * d.m + d.s

\* d > 0 as an int64
Positive(d) == ~ SecondsLeq(d, 0)

-----------------------------------------------------------------------------
(* Strings *)

Digits == <<"0", "1", "2", "3", "4", "5", "6", "7", "8", "9">>

IsDigit(c) == \E i \in 1..10 : Digits[i] = c

DigitVal(c) == (CHOOSE i \in 1..10 : Digits[i] = c) - 1

IsSpace(c) == c = " "

\* strings.HasPrefix(str, p)
HasPrefix(str, p) == Len(str) >= Len(p) /\ SubSeq(str, 1, Len(p)) = p

\* str[k:] with k counted from 0
From(str, k) == SubSeq(str, k + 1, Len(str))

RECURSIVE TrimLeft(_)
TrimLeft(str) ==
    IF str # <<>> /\ IsSpace(Head(str)) THEN TrimLeft(Tail(str)) ELSE str

RECURSIVE TrimRight(_)
TrimRight(str) ==
    IF str # <<>> /\ IsSpace(str[Len(str)])
    THEN TrimRight(SubSeq(str, 1, Len(str) - 1)) ELSE str

\* strings.TrimSpace
TrimSpace(str) == TrimRight(TrimLeft(str))

AllDigits(str) == str # <<>> /\ \A i \in 1..Len(str) : IsDigit(str[i])

\* The decimal value of a string of digits
RECURSIVE Decimal(_)
Decimal(str) ==
    IF str = <<>> THEN 0
    ELSE 10 * Decimal(SubSeq(str, 1, Len(str) - 1)) + DigitVal(str[Len(str)])

-----------------------------------------------------------------------------
(* time.Parse(time.DateOnly, str), layout "2006-01-02" *)

LeapYear(y) == (y % 4 = 0 /\ y % 100 # 0) \/ y % 400 = 0

DaysIn(mo, y) ==
    IF mo = 2 THEN (IF LeapYear(y) THEN 29 ELSE 28)
    ELSE IF mo \in {4, 6, 9, 11} THEN 30 ELSE 31

DateShaped(str) ==
    /\ Len(str) = 10
    /\ str[5] = "-" /\ str[8] = "-"
    /\ \A i \in {1, 2, 3, 4, 6, 7, 9, 10} : IsDigit(str[i])

\* err == nil
DateParses(str) ==
    /\ DateShaped(str)
    /\ LET y  == Decimal(SubSeq(str, 1, 4))
           mo == Decimal(SubSeq(str, 6, 7))
           d  == Decimal(SubSeq(str, 9, 10))
       IN  mo \in 1..12 /\ d \in 1..DaysIn(mo, y)

\* The date returned when err == nil
ParseDate(str) ==
    <<Decimal(SubSeq(str, 1, 4)), Decimal(SubSeq(str, 6, 7)), Decimal(SubSeq(str, 9, 10))>>

\* time.Time{}, the value of m.datePrint before any "l <date>"
ZeroDate == <<1, 1, 1>>

-----------------------------------------------------------------------------
(* checkValidMinute(&m, command): the minutes that follow the letter, 0 for *)
(* the bare letter, and whether the command is well formed; on failure it   *)
(* sets m.err                                                               *)

checkValidMinute(command) ==
    IF Len(command) = 1
    THEN [ok |-> TRUE, minutes |-> 0, err |-> ""]
    ELSE IF ~ HasPrefix(From(command, 1), <<" ">>)
    THEN [ok |-> FALSE, minutes |-> 0, err |-> "Invalid command"]
    ELSE IF ~ AllDigits(TrimSpace(From(command, 2)))
    THEN [ok |-> FALSE, minutes |-> 0, err |-> "Invalid minute"]
    ELSE [ok |-> TRUE, minutes |-> Decimal(TrimSpace(From(command, 2))), err |-> ""]

-----------------------------------------------------------------------------
(* The pieces of model.Update *)

Zero == <<0, 1>>

\* Mutant of Percent: the share that remains, not the share that has passed
PercentLeft(rem, dur) == <<InSeconds(rem), InSeconds(dur)>>

\* 1 - float64(rem.Milliseconds())/float64(dur.Milliseconds()), as the exact
\* fraction (dur - rem)/dur; the float64 operations round monotonically
Percent(rem, dur) == <<InSeconds(dur) - InSeconds(rem), InSeconds(dur)>>

Phase ==
    IF ~ inSession THEN "Idle"
    ELSE IF opening THEN "Opening"
    ELSE IF closing THEN "Closing"
    ELSE "Active"

\* Mutant of KeysDropped: the keys are handled in every phase
KeysNeverDropped == FALSE

\* Lines 66-69: during the opening and the closing window every key is dropped
KeysDropped == inSession /\ (opening \/ closing)

\* Lines 71 and 83: key.Matches(msg, m.keys.Stop)
MatchesStop(runes) == runes = StopKey

\* Mutant of MatchesQuit: no rune is a quit key
MatchesQuitNever(runes) == FALSE

\* Line 78: key.Matches(msg, m.keys.Quit) for a rune message
MatchesQuit(runes) == runes = QuitRune

\* Lines 108-110 and 131-133: no minutes given, or 0, means the default
MinutesOrDefault(numOfMinutes, default) ==
    IF numOfMinutes = 0 THEN default ELSE numOfMinutes

\* Mutant of MayStart: a start is accepted in session too
MayStartAlways == TRUE

\* Lines 112 and 135: a start is accepted only out of session
MayStart == ~ inSession

\* Mutant of OpeningOver: the window ends one second early
OpeningOverEarly(rem, dur) == MillisecondsLeq(rem, AddSeconds(dur, 1))

\* Line 202: the opening window is over
OpeningOver(rem, dur) == MillisecondsLeq(rem, dur)

\* Mutant of ClosingOver: the window never ends
ClosingNeverOver(rem) == FALSE

\* Mutant of ClosingOver: the window is one second longer
ClosingOverLate(rem) == SecondsLeq(rem, 0 - ClosingSeconds - 1)

\* Line 209: the closing window is over
ClosingOver(rem) == SecondsLeq(rem, 0 - ClosingSeconds)

\* Mutant of CountdownOver: < 1s instead of <= 0
CountdownOverEarly(rem) == SecondsLeq(rem, 1)

\* Line 226: the countdown has run out
CountdownOver(rem) == SecondsLeq(rem, 0)

\* Mutant of Recorded: every session is recorded
RecordedAlways(type) == TRUE

\* Line 213: only a work session is recorded
Recorded(type) == type = workSession

\* Lines 215-216
session(start, end, dur) == [StartTime |-> start, EndTime |-> end, Duration |-> dur]

\* tickCmd(): tea.Tick(time.Second, ...) delivers one tickMsg once a second has passed
tickCmd == [fresh |-> pending.fresh + 1, due |-> pending.due]

\* m.textarea.Update(msg) for a message of runes: they are inserted up to CharLimit
Insert(value, runes) ==
    SubSeq(value \o runes, 1, IF Len(value) + Len(runes) > CharLimit
                              THEN CharLimit ELSE Len(value) + Len(runes))

\* saveSessions(m.sessions) failed
SaveError == "save failed"

\* The history of one call of Update: the message, the phase it found, the text
\* of the prompt that tea.KeyEnter found, and what Update did
Event(msg, did) ==
    [msg |-> msg, from |-> Phase, did |-> did,
     line |-> IF msg = Enter THEN textarea ELSE <<>>]

-----------------------------------------------------------------------------
(* The environments: what the user types, and the bounds of the run *)

\* The clock stops after so many seconds: a one-minute session runs 67 ticks
MaxNow == 75

\* The same where a start may follow a stop before the tick of the stopped
\* session has been delivered: two chains of ticks halve the run
ChainsMaxNow == 40

\* Ticks of stopped sessions still scheduled when the user starts a session
MaxStale == 1

\* The clock of the runs that try every command line
ParseMaxNow == 6

\* The clock of the runs with the default durations: 25 minutes run 1507 ticks
LongMaxNow == 1512

\* The clock of the runs in which two one-minute sessions run to their end
TwiceMaxNow == 140

\* The runs in which every session started has the time to end: the user
\* submits no line out of session after LiveLastStart, and the clock runs the
\* length of a one-minute session (67 ticks) further
LiveLastStart == 3
LiveMaxNow == 70

\* What the user types into the prompt, each line as one message of runes
TimerLines ==
    { <<"s", " ", "1">>, <<"b", " ", "1">>, <<"l">>, StopKey }

ChainsLines ==
    { <<"s", " ", "1">>, <<"b", " ", "1">>, StopKey }

LongLines ==
    { <<"s">>, <<"b">> }

TwiceLines ==
    { <<"s", " ", "1">>, <<"b", " ", "1">> }

LiveLines ==
    { <<"s", " ", "1">>, <<"b", " ", "1">>, StopKey }

ParseLines ==
    { <<"s">>, <<"b">>, <<"l">>, StopKey, QuitRune, <<"z">>,
      <<"s", " ", "2">>, <<"b", " ", "3">>, <<"s", " ", "0">>, <<"b", " ", "0">>,
      <<"s", " ", "1", "5", "3", "7", "2", "2", "8", "6", "8">>,
      <<"s", " ", "x">>, <<"s", "t", "o", "p">>, <<"b", "2">>,
      <<"l", " ", "2", "0", "2", "4", "-", "0", "2", "-", "2", "9">>,
      <<"l", " ", "2", "0", "2", "4", "-", "0", "2", "-", "3", "0">>,
      <<"l", "2">> }

\* A session saved by an earlier run of the program
EarlierSession == session(0 - 100, 0 - 33, Minutes(1))

NoFile == { <<>> }
AnyFile == { <<>>, <<EarlierSession>> }

Environments ==
    { [name |-> "timer",  lines |-> TimerLines,  maxNow |-> MaxNow,       maxStale |-> 0,        lastStart |-> MaxNow,       esc |-> FALSE, files |-> AnyFile],
      [name |-> "chains", lines |-> ChainsLines, maxNow |-> ChainsMaxNow, maxStale |-> MaxStale, lastStart |-> ChainsMaxNow, esc |-> FALSE, files |-> NoFile],
      [name |-> "long",   lines |-> LongLines,   maxNow |-> LongMaxNow,   maxStale |-> 0,        lastStart |-> LongMaxNow,   esc |-> FALSE, files |-> NoFile],
      [name |-> "twice",  lines |-> TwiceLines,  maxNow |-> TwiceMaxNow,  maxStale |-> 0,        lastStart |-> TwiceMaxNow,  esc |-> FALSE, files |-> NoFile],
      [name |-> "parse",  lines |-> ParseLines,  maxNow |-> ParseMaxNow,  maxStale |-> MaxStale, lastStart |-> ParseMaxNow,  esc |-> TRUE,  files |-> AnyFile],
      [name |-> "live",   lines |-> LiveLines,   maxNow |-> LiveMaxNow,   maxStale |-> MaxStale, lastStart |-> LiveLastStart, esc |-> TRUE,  files |-> NoFile] }

\* The environment of this run
Env == CHOOSE e \in Environments : e.name = env

\* A message of runes reaches the prompt when it is empty; the stop and the
\* quit key are also pressed over a text typed before, while the countdown shows
Typed(runes) ==
    /\ runes \in Env.lines
    /\ \/ textarea = <<>>
       \/ /\ Phase = "Active"
          /\ runes \in {StopKey, QuitRune}

\* The user submits a line out of session once the ticks of stopped sessions
\* have been delivered, up to maxStale of them, and no later than lastStart
Submitted ==
    \/ inSession
    \/ /\ pending.fresh + pending.due <= Env.maxStale
       /\ now <= Env.lastStart

-----------------------------------------------------------------------------
(* The initial state: initialModel() *)

\* loadSessions(): the file of an earlier run, or none
Init ==
    /\ env \in { e.name : e \in Environments }
    /\ textarea = <<>>
    /\ inSession = FALSE
    /\ opening = FALSE
    /\ closing = FALSE
    /\ sessionType = ""
    /\ timerDuration = Minutes(0)
    /\ remainingTime = Minutes(0)
    /\ startTime = 0 - 1
    /\ percent = Zero
    /\ disk \in Env.files
    /\ sessions = disk
    /\ loaded = Len(disk)
    /\ err = ""
    /\ showSession = FALSE
    /\ printDifferentDate = FALSE
    /\ datePrint = ZeroDate
    /\ pending = [fresh |-> 0, due |-> 0]
    /\ now = 0
    /\ quit = FALSE
    /\ ticks = 0
    /\ ev = [msg |-> <<>>, from |-> "Idle", did |-> "none", line |-> <<>>]

-----------------------------------------------------------------------------
(* model.Update on a tea.KeyMsg *)

\* Mutant of Start: percent is left as the session before left it
StartKeepingPercent(type, numOfMinutes) ==
    /\ startTime' = now
    /\ sessionType' = type
    /\ timerDuration' = Minutes(numOfMinutes)
    /\ remainingTime' = AddSeconds(Minutes(numOfMinutes), OpeningSeconds)
    /\ percent' = percent
    /\ inSession' = TRUE
    /\ opening' = TRUE
    /\ closing' = FALSE
    /\ pending' = tickCmd
    /\ ticks' = 0

\* Mutant of Start: the start time is left as it was
StartKeepingStartTime(type, numOfMinutes) ==
    /\ startTime' = startTime
    /\ sessionType' = type
    /\ timerDuration' = Minutes(numOfMinutes)
    /\ remainingTime' = AddSeconds(Minutes(numOfMinutes), OpeningSeconds)
    /\ percent' = Zero
    /\ inSession' = TRUE
    /\ opening' = TRUE
    /\ closing' = FALSE
    /\ pending' = tickCmd
    /\ ticks' = 0

\* Lines 112-121 and 135-144: the accepted start
Start(type, numOfMinutes) ==
    /\ startTime' = now
    /\ sessionType' = type
    /\ timerDuration' = Minutes(numOfMinutes)
    /\ remainingTime' = AddSeconds(Minutes(numOfMinutes), OpeningSeconds)
    /\ percent' = Zero
    /\ inSession' = TRUE
    /\ opening' = TRUE
    /\ closing' = FALSE
    /\ pending' = tickCmd
    /\ ticks' = 0

\* Lines 102-124 and 125-147: the command "s..." or "b..."
StartCommand(command, type, default) ==
    LET valid == checkValidMinute(command) IN
    IF ~ valid.ok
    THEN /\ err' = valid.err
         /\ ev' = Event(Enter, "invalid")
         /\ UNCHANGED <<timerVars, listVars, sessions, disk, pending, quit, ticks>>
    ELSE IF MayStart
    THEN /\ Start(type, MinutesOrDefault(valid.minutes, default))
         /\ err' = ""
         /\ ev' = Event(Enter, "start")
         /\ UNCHANGED <<listVars, sessions, disk, quit>>
    ELSE /\ err' = ""
         /\ ev' = Event(Enter, "startIgnored")
         /\ UNCHANGED <<timerVars, listVars, sessions, disk, pending, quit, ticks>>

\* Mutant of ListCommand: the command ends the session in progress
ListCommandEndingSession(command) ==
    /\ inSession' = FALSE
    /\ UNCHANGED <<opening, closing, sessionType, timerDuration, remainingTime,
                   startTime, percent, sessions, disk, pending, quit, ticks>>
    /\ IF command = <<"l">>
       THEN /\ printDifferentDate' = FALSE
            /\ showSession' = TRUE
            /\ err' = ""
            /\ ev' = Event(Enter, "list")
            /\ UNCHANGED datePrint
       ELSE IF ~ HasPrefix(From(command, 1), <<" ">>)
       THEN /\ err' = "Invalid command"
            /\ ev' = Event(Enter, "invalid")
            /\ UNCHANGED listVars
       ELSE IF ~ DateParses(TrimSpace(From(command, 2)))
       THEN /\ err' = "Invalid date format"
            /\ ev' = Event(Enter, "invalid")
            /\ UNCHANGED listVars
       ELSE /\ printDifferentDate' = TRUE
            /\ datePrint' = ParseDate(TrimSpace(From(command, 2)))
            /\ showSession' = TRUE
            /\ err' = ""
            /\ ev' = Event(Enter, "list")

\* Lines 148-171: the command "l..."
ListCommand(command) ==
    IF command = <<"l">>
    THEN /\ printDifferentDate' = FALSE
         /\ showSession' = TRUE
         /\ err' = ""
         /\ ev' = Event(Enter, "list")
         /\ UNCHANGED <<datePrint, timerVars, sessions, disk, pending, quit, ticks>>
    ELSE IF ~ HasPrefix(From(command, 1), <<" ">>)
    THEN /\ err' = "Invalid command"
         /\ ev' = Event(Enter, "invalid")
         /\ UNCHANGED <<listVars, timerVars, sessions, disk, pending, quit, ticks>>
    ELSE IF ~ DateParses(TrimSpace(From(command, 2)))
    THEN /\ err' = "Invalid date format"
         /\ ev' = Event(Enter, "invalid")
         /\ UNCHANGED <<listVars, timerVars, sessions, disk, pending, quit, ticks>>
    ELSE /\ printDifferentDate' = TRUE
         /\ datePrint' = ParseDate(TrimSpace(From(command, 2)))
         /\ showSession' = TRUE
         /\ err' = ""
         /\ ev' = Event(Enter, "list")
         /\ UNCHANGED <<timerVars, sessions, disk, pending, quit, ticks>>

\* Lines 95-179: tea.KeyEnter submits the text of the prompt
Submit(command) ==
    /\ textarea' = <<>>
    /\ IF command = QuitRune
       THEN /\ quit' = TRUE
            /\ err' = ""
            /\ ev' = Event(Enter, "quit")
            /\ UNCHANGED <<timerVars, listVars, sessions, disk, pending, ticks>>
       ELSE IF HasPrefix(command, <<"s">>)
       THEN StartCommand(command, workSession, DefaultWorkMinutes)
       ELSE IF HasPrefix(command, <<"b">>)
       THEN StartCommand(command, breakSession, DefaultBreakMinutes)
       ELSE IF HasPrefix(command, <<"l">>)
       THEN ListCommand(command)
       ELSE /\ err' = "Invalid command"
            /\ ev' = Event(Enter, "invalid")
            /\ UNCHANGED <<timerVars, listVars, sessions, disk, pending, quit, ticks>>

\* Lines 73-77: the stop key while the countdown shows
Stop ==
    /\ inSession' = FALSE
    /\ textarea' = <<>>
    /\ UNCHANGED <<opening, closing, sessionType, timerDuration, remainingTime,
                   startTime, percent>>

\* A key message of runes: a key typed, or a text pasted
KeyRunes(runes) ==
    /\ ~ quit
    /\ Typed(runes)
    /\ UNCHANGED <<sessions, disk, pending, now, loaded, ticks, env>>
    /\ IF KeysDropped
       THEN /\ textarea' = Insert(textarea, runes)
            /\ ev' = Event(runes, "dropped")
            /\ UNCHANGED <<timerVars, listVars, err, quit>>
       ELSE IF inSession /\ MatchesStop(runes)
       THEN /\ Stop
            /\ ev' = Event(runes, "stop")
            /\ UNCHANGED <<listVars, err, quit>>
       ELSE IF inSession /\ MatchesQuit(runes)
       THEN /\ quit' = TRUE
            /\ textarea' = Insert(textarea, runes)
            /\ ev' = Event(runes, "quit")
            /\ UNCHANGED <<timerVars, listVars, err>>
       ELSE IF showSession /\ MatchesStop(runes)
       THEN /\ showSession' = FALSE
            /\ textarea' = <<>>
            /\ ev' = Event(runes, "hideList")
            /\ UNCHANGED <<timerVars, printDifferentDate, datePrint, err, quit>>
       ELSE /\ err' = ""
            /\ textarea' = Insert(textarea, runes)
            /\ ev' = Event(runes, "typed")
            /\ UNCHANGED <<timerVars, listVars, quit>>

\* tea.KeyEnter
KeyEnter ==
    /\ ~ quit
    /\ Submitted
    /\ UNCHANGED <<now, loaded, env>>
    /\ IF KeysDropped
       THEN /\ ev' = Event(Enter, "dropped")
            /\ UNCHANGED <<textarea, timerVars, listVars, err, sessions, disk,
                           pending, quit, ticks>>
       ELSE Submit(textarea)

\* tea.KeyEsc or tea.KeyCtrlC: both match keys.Quit (line 78) and line 91
KeyEsc ==
    /\ ~ quit
    /\ Env.esc
    /\ UNCHANGED <<textarea, timerVars, listVars, sessions, disk, pending, now,
                   loaded, ticks, env>>
    /\ IF KeysDropped
       THEN /\ ev' = Event(Esc, "dropped")
            /\ UNCHANGED <<err, quit>>
       ELSE IF inSession
       THEN /\ quit' = TRUE
            /\ ev' = Event(Esc, "quit")
            /\ UNCHANGED err
       ELSE /\ quit' = TRUE
            /\ err' = ""
            /\ ev' = Event(Esc, "quit")

-----------------------------------------------------------------------------
(* model.Update on a tickMsg, lines 194-233 *)

\* Mutant of Complete: a failed save is not reported
CompleteSilently(saved) ==
    /\ closing' = FALSE
    /\ inSession' = FALSE
    /\ IF Recorded(sessionType)
       THEN /\ sessions' = Append(sessions, session(startTime, now, timerDuration))
            /\ disk' = (IF saved THEN sessions' ELSE disk)
            /\ err' = err
       ELSE UNCHANGED <<sessions, disk, err>>

\* Mutant of Complete: the log is replaced by the session that ended
CompleteOverwriting(saved) ==
    /\ closing' = FALSE
    /\ inSession' = FALSE
    /\ IF Recorded(sessionType)
       THEN /\ sessions' = <<session(startTime, now, timerDuration)>>
            /\ IF saved
               THEN disk' = sessions' /\ err' = err
               ELSE disk' = disk /\ err' = SaveError
       ELSE UNCHANGED <<sessions, disk, err>>

\* Lines 209-224: the session ends; a work session is appended and saved
Complete(saved) ==
    /\ closing' = FALSE
    /\ inSession' = FALSE
    /\ IF Recorded(sessionType)
       THEN /\ sessions' = Append(sessions, session(startTime, now, timerDuration))
            /\ IF saved
               THEN disk' = sessions' /\ err' = err
               ELSE disk' = disk /\ err' = SaveError
       ELSE UNCHANGED <<sessions, disk, err>>

Tick ==
    /\ ~ quit
    /\ pending.due > 0
    /\ UNCHANGED <<textarea, listVars, now, quit, loaded, sessionType,
                   timerDuration, startTime, env>>
    /\ IF ~ inSession
       THEN /\ pending' = [pending EXCEPT !.due = @ - 1]
            /\ ev' = Event(TickMsg, "idle")
            /\ UNCHANGED <<inSession, opening, closing, remainingTime, percent,
                           sessions, disk, err, ticks>>
       ELSE LET rem == AddSeconds(remainingTime, 0 - 1)
                rearmed == [fresh |-> pending.fresh + 1, due |-> pending.due - 1]
            IN
            /\ remainingTime' = rem
            /\ ticks' = ticks + 1
            /\ IF opening
               THEN /\ opening' = ~ OpeningOver(rem, timerDuration)
                    /\ pending' = rearmed
                    /\ ev' = Event(TickMsg, "opening")
                    /\ UNCHANGED <<inSession, closing, percent, sessions, disk, err>>
               ELSE IF ClosingOver(rem)
               THEN /\ \E saved \in BOOLEAN : Complete(saved)
                    /\ pending' = [pending EXCEPT !.due = @ - 1]
                    /\ ev' = Event(TickMsg, "complete")
                    /\ UNCHANGED <<opening, percent>>
               ELSE IF CountdownOver(rem)
               THEN /\ closing' = TRUE
                    /\ pending' = rearmed
                    /\ ev' = Event(TickMsg, "closing")
                    /\ UNCHANGED <<inSession, opening, percent, sessions, disk, err>>
               ELSE /\ percent' = Percent(rem, timerDuration)
                    /\ pending' = rearmed
                    /\ ev' = Event(TickMsg, "countdown")
                    /\ UNCHANGED <<inSession, opening, closing, sessions, disk, err>>

-----------------------------------------------------------------------------
(* The clock *)

\* A second passes: every tick scheduled before it falls due.  The clock is
\* read only by time.Now() and moves while a scheduled tick waits for it.
Advance ==
    /\ ~ quit
    /\ now < Env.maxNow
    /\ pending.fresh > 0
    /\ now' = now + 1
    /\ pending' = [fresh |-> 0, due |-> pending.due + pending.fresh]
    /\ UNCHANGED <<textarea, timerVars, listVars, sessions, disk, err, quit,
                   loaded, ticks, ev, env>>

-----------------------------------------------------------------------------

Next ==
    \/ \E runes \in ParseLines \cup TimerLines \cup ChainsLines \cup LongLines \cup TwiceLines \cup LiveLines : KeyRunes(runes)
    \/ KeyEnter
    \/ KeyEsc
    \/ Tick
    \/ Advance

Spec == Init /\ [][Next]_vars

\* The runs of the "live" environment, where the runtime does its part: a
\* second that a scheduled tick waits for passes (tea.Tick's timer fires), and
\* a tick that is due is delivered to Update (the message loop of bubbletea)
LiveInit == Init /\ env = "live"

LiveSpec == LiveInit /\ [][Next]_vars /\ WF_vars(Tick) /\ WF_vars(Advance)

-----------------------------------------------------------------------------
(* Claims *)

\* The value of a fraction <<a, b>> is at most that of <<c, d>> (b, d > 0)
FracLeq(p, q) == p[1] * q[2] <= q[1] * p[2]

\* The nominal duration in seconds of the running session
D == InSeconds(timerDuration)

C2_NoBreakRecorded ==
    [][ sessions' # sessions
            => /\ sessionType = workSession
               /\ Tick /\ Phase # "Idle" /\ Phase' = "Idle"
               /\ Len(sessions') = Len(sessions) + 1 ]_vars

\* C2 witness: a break has run to its end and the log holds what was loaded
C2_Witness ==
    /\ ev.msg = TickMsg /\ ev.did = "complete" /\ ev.from = "Closing"
    /\ sessionType = breakSession
    /\ Len(sessions) = loaded

\* C3: a start command submitted while the phase is not Idle changes none of
\* sessionType, timerDuration, remainingTime, startTime, percent and the phase
\* flags, and schedules no tick.
C3_StartInSessionIsNoOp ==
    [][ (KeyEnter /\ Phase # "Idle"
           /\ (HasPrefix(textarea, <<"s">>) \/ HasPrefix(textarea, <<"b">>)))
            => UNCHANGED <<timerVars, pending>> ]_vars

\* C3 witness: a start line was submitted to an Active session and refused
C3_Witness ==
    /\ ev.msg = Enter /\ ev.did = "startIgnored" /\ ev.from = "Active"
    /\ ev.line = <<"b", " ", "1">> /\ sessionType = workSession
    /\ Phase = "Active"

C5_FourTicksClose ==
    [][ (Tick /\ Phase = "Closing") =>
            LET further == ticks' - (D + OpeningSeconds) IN
            /\ further \in 1..ClosingSeconds
            /\ Phase' = (IF further = ClosingSeconds THEN "Idle" ELSE "Closing")
            /\ IF further = ClosingSeconds /\ sessionType = workSession
               THEN /\ Len(sessions') = Len(sessions) + 1
                    /\ SubSeq(sessions', 1, Len(sessions)) = sessions
                    /\ sessions'[Len(sessions')].Duration = timerDuration
               ELSE sessions' = sessions ]_vars

\* C5 witness: the 4th tick after Closing began has ended a work session and
\* appended its record
C5_Witness ==
    /\ ev.msg = TickMsg /\ ev.did = "complete" /\ ev.from = "Closing"
    /\ sessionType = workSession
    /\ ticks = D + OpeningSeconds + ClosingSeconds
    /\ Len(sessions) = loaded + 1
    /\ sessions[Len(sessions)].Duration = timerDuration
    /\ Phase = "Idle"

\* C6 (as claimed): percent never decreases from one tick to the next while
\* the phase is Active, and it is 1.0 after the tick that moves the phase from
\* Active to Closing.
C6_PercentReachesOne ==
    [][ (Tick /\ Phase = "Active") =>
            /\ Phase' = "Active" => FracLeq(percent, percent')
            /\ Phase' = "Closing" => percent'[1] = percent'[2] ]_vars

\* C6 (amended): percent never decreases from one tick to the next while the
\* phase is Active; the tick that moves the phase from Active to Closing leaves
\* percent as it was, at 1 - 1s/timerDuration, below 1.0.
C6_PercentStopsShort ==
    [][ (Tick /\ Phase = "Active") =>
            /\ Phase' = "Active" => FracLeq(percent, percent')
            /\ Phase' = "Closing" => (percent' = percent /\ percent' = <<D - 1, D>>) ]_vars

\* C6 witness: the phase has just gone from Active to Closing with percent
\* at 59/60 of a one-minute session
C6_Witness ==
    /\ ev.msg = TickMsg /\ ev.did = "closing" /\ ev.from = "Active"
    /\ timerDuration = Minutes(1)
    /\ percent = <<Minute - 1, Minute>>
    /\ Phase = "Closing"

\* C7: a start command accepted from Idle sets timerDuration to n minutes for
\* "s <n>" / "b <n>" with n > 0 and to the default (25 work, 5 break) for the
\* bare letter and for n = 0, and the duration it sets is longer than zero.
C7_StartDuration ==
    [][ (KeyEnter /\ Phase = "Idle" /\ Phase' = "Opening") =>
            LET n == IF Len(textarea) = 1 THEN 0
                     ELSE Decimal(TrimSpace(From(textarea, 2)))
                default == IF sessionType' = workSession
                           THEN DefaultWorkMinutes ELSE DefaultBreakMinutes
            IN
            /\ sessionType' = (IF Head(textarea) = "s" THEN workSession ELSE breakSession)
            /\ timerDuration' = Minutes(IF n = 0 THEN default ELSE n)
            /\ Positive(timerDuration') ]_vars

\* C8: the list view is turned on only by a command line submitted while the
\* phase is Idle, never by one submitted during a session.
C8_ListOnlyWhenIdle ==
    [][ (KeyEnter /\ showSession' /\ ~ showSession) => Phase = "Idle" ]_vars

\* C9: the tick that completes a work session while the save fails (the record
\* is appended in memory and the file stays as it was) still moves the phase to
\* Idle and sets the error string; afterwards, with the file still behind the
\* log, a start command submitted from Idle starts a session.
C9_SaveFailureReturnsToIdle ==
    [][ /\ (Tick /\ sessions' # sessions /\ disk' = disk)
            => /\ Phase # "Idle" /\ Phase' = "Idle"
               /\ ~ inSession' /\ ~ opening' /\ ~ closing'
               /\ err' = SaveError
        /\ (KeyEnter /\ sessions # disk /\ Phase = "Idle"
              /\ textarea \in {<<"s", " ", "1">>, <<"b", " ", "1">>})
            => (Phase' = "Opening" /\ ev'.did = "start") ]_vars

\* C9 witness: a session has been started after a save that failed
C9_Witness ==
    /\ sessions # disk
    /\ Len(sessions) > loaded
    /\ ev.msg = Enter /\ ev.did = "start" /\ ev.from = "Idle"
    /\ Phase = "Opening"

\* C10: every session appended during the run has EndTime > StartTime and a
\* Duration longer than zero.
C10_AppendedRecordsPositive ==
    \A i \in (loaded + 1)..Len(sessions) :
        /\ sessions[i].EndTime > sessions[i].StartTime
        /\ Positive(sessions[i].Duration)

\* C11: every step leaves the log as it was or extends it by exactly one
\* record at its end, the records before it unchanged and in place; and the
\* tick that ends the Closing of a work session appends that session's record,
\* once.
C11_AppendOnly ==
    [][ /\ \/ sessions' = sessions
           \/ /\ Len(sessions') = Len(sessions) + 1
              /\ SubSeq(sessions', 1, Len(sessions)) = sessions
        /\ (Tick /\ Phase = "Closing" /\ Phase' = "Idle" /\ sessionType = workSession)
            => sessions' = Append(sessions, session(startTime, now, timerDuration)) ]_vars

\* C11 witness: a work session has ended through Closing and its record
\* stands after the record loaded from the file, which is as it was
C11_Witness ==
    /\ ev.msg = TickMsg /\ ev.did = "complete" /\ ev.from = "Closing"
    /\ loaded = 1
    /\ Len(sessions) = 2
    /\ sessions[1] = EarlierSession
    /\ sessions[2].StartTime = startTime /\ sessions[2].EndTime = now

\* C12: of any two records appended during the run, the one appended earlier
\* ends no later than the one appended later starts.
C12_Chronological ==
    \A i, j \in (loaded + 1)..Len(sessions) :
        i < j => sessions[i].EndTime <= sessions[j].StartTime

\* C12 witness: two work sessions have run to their end in one run
C12_Witness ==
    /\ Len(sessions) = loaded + 2
    /\ sessions[loaded + 1].StartTime < sessions[loaded + 1].EndTime
    /\ sessions[loaded + 1].EndTime <= sessions[loaded + 2].StartTime
    /\ sessions[loaded + 2].StartTime < sessions[loaded + 2].EndTime

\* C13: a step changes the phase only from Idle to Opening by a submitted
\* line, from Opening to Active, Active to Closing or Closing to Idle by a
\* tick, or to Idle by the stop key.
C13_LegalTransitions ==
    [][ Phase' # Phase =>
            \/ KeyEnter /\ Phase = "Idle" /\ Phase' = "Opening"
            \/ Tick /\ <<Phase, Phase'>> \in { <<"Opening", "Active">>,
                                               <<"Active", "Closing">>,
                                               <<"Closing", "Idle">> }
            \/ KeyRunes(StopKey) /\ Phase' = "Idle" ]_vars

\* C14: at most one tick is scheduled at any time.
C14_OneTickScheduled ==
    pending.fresh + pending.due <= 1

\* C15: while a session is in progress at least one tick is scheduled, and
\* when scheduled ticks are delivered every session in progress leads to Idle,
\* unless the program is quit.
C15_EventuallyIdle ==
    /\ [](inSession => pending.fresh + pending.due >= 1)
    /\ (inSession ~> (~ inSession \/ quit))

\* C15 witness: a session started after an earlier one was stopped has run to
\* its end, the save of its record failing
C15_Witness ==
    /\ env = "live"
    /\ ev.msg = TickMsg /\ ev.did = "complete"
    /\ startTime > 0
    /\ sessions # disk
    /\ Phase = "Idle"

\* C16: percent lies in [0, 1] in every state, and in every Active state it
\* equals 1 - remainingTime/timerDuration; just after Opening, where
\* remainingTime = timerDuration, that is 0.
C16_PercentInActive ==
    /\ 0 <= percent[1] /\ percent[1] <= percent[2] /\ percent[2] > 0
    /\ Phase = "Active" =>
           IF remainingTime = timerDuration
           THEN percent[1] = 0
           ELSE /\ ~ Wrapped(timerDuration)
                /\ percent[1] * D = (D - InSeconds(remainingTime)) * percent[2]

\* C16 witness: the tick that ended Opening has left an Active session with
\* percent 0 and the whole duration remaining
C16_Witness ==
    /\ ev.msg = TickMsg /\ ev.did = "opening" /\ ev.from = "Opening"
    /\ Phase = "Active"
    /\ remainingTime = timerDuration /\ Positive(timerDuration)
    /\ percent = Zero

\* C17: a start accepted from Idle sets sessionType to the type of the
\* command, remainingTime to timerDuration + 3 s, startTime to the current
\* instant, percent to 0 and the phase to Opening (inSession and opening set,
\* closing cleared), whatever the fields held before; timerDuration is the
\* whole number of minutes the command asked for.
C17_StartSetsEveryField ==
    [][ (KeyEnter /\ Phase = "Idle" /\ ev'.did = "start") =>
            /\ sessionType' = (IF Head(textarea) = "s" THEN workSession ELSE breakSession)
            /\ timerDuration'.s = 0
            /\ timerDuration'.m =
                   MinutesOrDefault(checkValidMinute(textarea).minutes,
                                    IF Head(textarea) = "s" THEN DefaultWorkMinutes
                                    ELSE DefaultBreakMinutes)
            /\ remainingTime' = AddSeconds(timerDuration', OpeningSeconds)
            /\ startTime' = now
            /\ percent' = Zero
            /\ inSession' /\ opening' /\ ~ closing'
            /\ Phase' = "Opening" ]_vars

\* C17 witness: a break has been started after a work session that ran to its
\* end, whose fields (type Work, remainder -4 s, percent 59/60) were left over
C17_Witness ==
    /\ ev.msg = Enter /\ ev.did = "start" /\ ev.from = "Idle"
    /\ Len(sessions) = loaded + 1
    /\ sessions[Len(sessions)].Duration = Minutes(1)
    /\ sessionType = breakSession
    /\ startTime = now /\ startTime > 0
    /\ remainingTime = AddSeconds(timerDuration, OpeningSeconds)
    /\ percent = Zero
    /\ Phase = "Opening"

\* C18: an Enter that is not a start accepted from Idle (a list command with
\* or without a date, valid or not, a start with an invalid minute, a start
\* during a session, any other text) leaves the phase flags, sessionType,
\* timerDuration, remainingTime, startTime and percent as they were, and the
\* log, the saved file and the scheduled ticks too.
C18_OtherCommandsKeepTimer ==
    [][ (KeyEnter /\ ~ (Phase = "Idle" /\ Phase' = "Opening"))
            => UNCHANGED <<timerVars, sessions, disk, pending>> ]_vars

\* C18 witness: a list command with a date has been accepted while a session
\* was Active, and the session is Active still
C18_Witness ==
    /\ ev.msg = Enter /\ ev.did = "list" /\ ev.from = "Active"
    /\ ev.line = <<"l", " ", "2", "0", "2", "4", "-", "0", "2", "-", "2", "9">>
    /\ showSession /\ printDifferentDate /\ datePrint = <<2024, 2, 29>>
    /\ Phase = "Active"

C20_RemainingTimeWindows ==
    /\ Phase = "Opening" =>
           /\ ~ MillisecondsLeq(remainingTime, timerDuration)
           /\ MillisecondsLeq(remainingTime, AddSeconds(timerDuration, OpeningSeconds))
    /\ Phase = "Active" =>
           /\ Positive(remainingTime)
           /\ MillisecondsLeq(remainingTime, timerDuration)
    /\ Phase = "Closing" =>
           /\ ~ SecondsLeq(remainingTime, 0 - ClosingSeconds)
           /\ SecondsLeq(remainingTime, 0)
    /\ ~ (opening /\ closing)
    /\ (opening \/ closing) => inSession

====
